---- MODULE Spec2Model ----
(***************************************************************************)
(* Model of the two components of world-bank-unicef-data:                  *)
(*   - the Query Adapter  (src/unicef-mcp-server/index.js), the handler of *)
(*     "invoke operation" requests and the four functions it dispatches to;*)
(*   - the Chart Renderer (src/unnamed/part_000), the page script that     *)
(*     draws three charts and overwrites them from data/summary.json.      *)
(* JavaScript strings are TLA+ strings (Len, SubSeq and \o act on their    *)
(* characters); other JavaScript values are tagged records.                *)
(***************************************************************************)
EXTENDS Integers, Sequences, FiniteSets, TLC

(***************************************************************************)
(* JavaScript values                                                       *)
(***************************************************************************)
JSUndefined == [t |-> "undefined"]
JSNull == [t |-> "null"]
JSString(s) == [t |-> "string", s |-> s]
JSNumber(n) == [t |-> "number", n |-> n]

\* Number.prototype.toString for a non-negative integer.
RECURSIVE NatToString(_)
NatToString(n) ==
    IF n < 10
    THEN SubSeq("0123456789", n + 1, n + 1)
    ELSE NatToString(n \div 10) \o SubSeq("0123456789", (n % 10) + 1, (n % 10) + 1)

\* Number.prototype.toString for an integer.
IntToString(n) == IF n < 0 THEN "-" \o NatToString(0 - n) ELSE NatToString(n)

\* ToString, as applied by a template literal `${v}`.
TemplateString(v) ==
    CASE v.t = "undefined" -> "undefined"
      [] v.t = "null" -> "null"
      [] v.t = "string" -> v.s
      [] v.t = "number" -> IntToString(v.n)

\* ToBoolean, as applied by if (v), !v and v || w.
Truthy(v) ==
    CASE v.t = "undefined" -> FALSE
      [] v.t = "null" -> FALSE
      [] v.t = "string" -> v.s # ""
      [] v.t = "number" -> v.n # 0

\* String.prototype.includes
Includes(s, sub) ==
    \E i \in 1..(Len(s) - Len(sub) + 1) : SubSeq(s, i, i + Len(sub) - 1) = sub

UpperCase == "ABCDEFGHIJKLMNOPQRSTUVWXYZ"
LowerCase == "abcdefghijklmnopqrstuvwxyz"

LowerChar(c) ==
    IF \E i \in 1..Len(UpperCase) : SubSeq(UpperCase, i, i) = c
    THEN LET i == CHOOSE j \in 1..Len(UpperCase) : SubSeq(UpperCase, j, j) = c
         IN  SubSeq(LowerCase, i, i)
    ELSE c

\* String.prototype.toLowerCase
RECURSIVE ToLowerCase(_)
ToLowerCase(s) ==
    IF s = "" THEN ""
    ELSE LowerChar(SubSeq(s, 1, 1)) \o ToLowerCase(SubSeq(s, 2, Len(s)))

WhiteSpace == {" ", "\t", "\n", "\r"}

\* String.prototype.trim
RECURSIVE Trim(_)
Trim(s) ==
    IF s = "" THEN ""
    ELSE IF SubSeq(s, 1, 1) \in WhiteSpace THEN Trim(SubSeq(s, 2, Len(s)))
    ELSE IF SubSeq(s, Len(s), Len(s)) \in WhiteSpace THEN Trim(SubSeq(s, 1, Len(s) - 1))
    ELSE s

\* Array.prototype.slice(0, n)
Slice(a, n) == SubSeq(a, 1, IF Len(a) < n THEN Len(a) ELSE n)

(***************************************************************************)
(* Completions of the adapter's functions, and result payloads             *)
(***************************************************************************)
Return(payload) == [type |-> "return", payload |-> payload]
Throw(message) == [type |-> "throw", message |-> message]
Await(fn, url, locals) == [type |-> "await", fn |-> fn, url |-> url, locals |-> locals]

TextPayload(text) == [content |-> << [type |-> "text", text |-> text] >>]

UNICEF_API_BASE == "https://sdmx.data.unicef.org/ws/public/sdmxapi/rest"

\* Messages of the errors the runtime raises.
TypeErrorReading(of, prop) ==
    "Cannot read properties of " \o of \o " (reading '" \o prop \o "')"
FetchFailed == "fetch failed"
JsonSyntaxError == "Unexpected token < in JSON at position 0"

(***************************************************************************)
(* Query Adapter: data retrieval                                           *)
(***************************************************************************)
\* A mutation of DataKey: the separator is left out when no indicator is given.
DataKeyNoSeparator(countryCode, indicatorId) ==
    IF Truthy(indicatorId)
    THEN TemplateString(countryCode) \o "." \o TemplateString(indicatorId)
    ELSE TemplateString(countryCode)

\* getData: the composite key of the request path.
DataKey(countryCode, indicatorId) ==
    IF Truthy(indicatorId)
    THEN TemplateString(countryCode) \o "." \o TemplateString(indicatorId)
    ELSE TemplateString(countryCode) \o "."

\* getData: the request URL.
DataUrl(dataflowId, countryCode, indicatorId, startYear, endYear) ==
    LET url0 == UNICEF_API_BASE \o "/data/UNICEF," \o TemplateString(dataflowId)
                    \o ",1.0/" \o DataKey(countryCode, indicatorId) \o "?format=csv"
        url1 == IF Truthy(startYear)
                THEN url0 \o "&startPeriod=" \o TemplateString(startYear)
                ELSE url0
    IN  IF Truthy(endYear)
        THEN url1 \o "&endPeriod=" \o TemplateString(endYear)
        ELSE url1

\* The local variables a suspended function still reads after its await.
Locals(dataflowId, countryCode, keyword) ==
    [dataflowId |-> dataflowId, countryCode |-> countryCode, keyword |-> keyword]

\* getData, up to its await of fetch(url).
getData(dataflowId, countryCode, indicatorId, startYear, endYear) ==
    Await("getData",
          DataUrl(dataflowId, countryCode, indicatorId, startYear, endYear),
          Locals(dataflowId, countryCode, JSUndefined))

\* A mutation of DataBody: the body is not trimmed before it is compared.
DataBodyNoTrim(locals, csvText) ==
    IF csvText = ""
    THEN Return(TextPayload("No data found for " \o TemplateString(locals.countryCode)
                                \o " in " \o TemplateString(locals.dataflowId)))
    ELSE Return(TextPayload(csvText))

\* getData, from the response body to its return.
DataBody(locals, csvText) ==
    IF csvText = "" \/ Trim(csvText) = ""
    THEN Return(TextPayload("No data found for " \o TemplateString(locals.countryCode)
                                \o " in " \o TemplateString(locals.dataflowId)))
    ELSE Return(TextPayload(csvText))

\* getData: its catch clause.
getDataCatch(completion) ==
    IF completion.type = "throw"
    THEN Throw("Failed to fetch data: " \o completion.message)
    ELSE completion

(***************************************************************************)
(* JSON.stringify(value, null, 2) of an array of objects whose properties  *)
(* are strings or undefined.  An object is a sequence of <<key, value>>    *)
(* pairs in property order.                                                *)
(***************************************************************************)
RECURSIVE JSONQuoteChars(_)
JSONQuoteChars(s) ==
    IF s = "" THEN ""
    ELSE LET c == SubSeq(s, 1, 1)
             e == CASE c = "\"" -> "\\\""
                    [] c = "\\" -> "\\\\"
                    [] c = "\n" -> "\\n"
                    [] c = "\t" -> "\\t"
                    [] c = "\r" -> "\\r"
                    [] OTHER -> c
         IN  e \o JSONQuoteChars(SubSeq(s, 2, Len(s)))

JSONQuote(s) == "\"" \o JSONQuoteChars(s) \o "\""

\* The properties JSON.stringify writes: those whose value is not undefined.
DefinedProps(obj) == SelectSeq(obj, LAMBDA p : p[2].t # "undefined")

\* The concatenation of the strings ss[lo], ..., ss[hi].
RECURSIVE ConcatRange(_, _, _)
ConcatRange(ss, lo, hi) ==
    IF lo > hi THEN ""
    ELSE IF lo = hi THEN ss[lo]
    ELSE ConcatRange(ss, lo, (lo + hi) \div 2) \o ConcatRange(ss, (lo + hi) \div 2 + 1, hi)

ConcatAll(ss) == ConcatRange(ss, 1, Len(ss))

JSONProps(props, indent) ==
    ConcatAll([k \in 1..Len(props) |->
        indent \o JSONQuote(props[k][1]) \o ": " \o JSONQuote(props[k][2].s)
            \o (IF k < Len(props) THEN ",\n" ELSE "\n")])

JSONObject(obj, indent) ==
    IF DefinedProps(obj) = <<>> THEN "{}"
    ELSE "{\n" \o JSONProps(DefinedProps(obj), indent \o "  ") \o indent \o "}"

JSONItems(items) ==
    ConcatAll([k \in 1..Len(items) |->
        "  " \o JSONObject(items[k], "  ") \o (IF k < Len(items) THEN ",\n" ELSE "\n")])

JSONStringify(items) ==
    IF items = <<>> THEN "[]" ELSE "[\n" \o JSONItems(items) \o "]"

\* Array.prototype.join of an array of values: undefined and null give "".
Join(values, sep) ==
    ConcatAll([k \in 1..Len(values) |->
        (IF values[k].t \in {"undefined", "null"} THEN "" ELSE TemplateString(values[k]))
            \o (IF k < Len(values) THEN sep ELSE "")])

(***************************************************************************)
(* Query Adapter: metadata operations                                      *)
(***************************************************************************)
INDICATORS_LIMIT == 100
SEARCH_LIMIT == 50

\* data.data?.codelists || []  (data is not null)
Codelists(data) ==
    IF data.data.t = "undefined" THEN <<>>
    ELSE IF data.data.codelists.t = "undefined" THEN <<>>
    ELSE data.data.codelists.items

\* data.data?.dataflows || []  (data is not null)
Dataflows(data) ==
    IF data.data.t = "undefined" THEN <<>>
    ELSE IF data.data.dataflows.t = "undefined" THEN <<>>
    ELSE data.data.dataflows.items

\* cl.id?.includes("INDICATOR") || cl.id?.includes("IND")
IsIndicatorCodelist(cl) ==
    /\ cl.id.t = "string"
    /\ Includes(cl.id.s, "INDICATOR") \/ Includes(cl.id.s, "IND")

\* A mutation of FindIndicatorCodelist: the last matching code list is taken.
FindLastIndicatorCodelist(codelists) ==
    IF \E i \in 1..Len(codelists) : IsIndicatorCodelist(codelists[i])
    THEN CHOOSE i \in 1..Len(codelists) :
            /\ IsIndicatorCodelist(codelists[i])
            /\ \A j \in (i + 1)..Len(codelists) : ~IsIndicatorCodelist(codelists[j])
    ELSE 0

\* codelists.find(...): the index of the code list found, 0 when none is.
FindIndicatorCodelist(codelists) ==
    IF \E i \in 1..Len(codelists) : IsIndicatorCodelist(codelists[i])
    THEN CHOOSE i \in 1..Len(codelists) :
            /\ IsIndicatorCodelist(codelists[i])
            /\ \A j \in 1..(i - 1) : ~IsIndicatorCodelist(codelists[j])
    ELSE 0

\* x.names?.en || x.name || fallback
NameOr(x, fallback) ==
    LET en == IF x.names.t = "undefined" THEN JSUndefined ELSE x.names.en
    IN  IF Truthy(en) THEN en
        ELSE IF Truthy(x.name) THEN x.name
        ELSE JSString(fallback)

\* code => ({ id: code.id, name: code.names?.en || code.name || "Unknown" })
IndicatorEntry(code) == << <<"id", code.id>>, <<"name", NameOr(code, "Unknown")>> >>

\* indicatorCodelist.codes, or the empty array the trailing || [] supplies.
CodesOf(cl) == IF cl.codes.t = "undefined" THEN <<>> ELSE cl.codes.items

\* A mutation of NoCodelistMessage: the identifiers are left out.
NoCodelistMessageBare(dataflowId, codelists) ==
    "No indicator codelist found for dataflow " \o TemplateString(dataflowId)

\* getIndicators: the text returned when no code list is found.
NoCodelistMessage(dataflowId, codelists) ==
    "No indicator codelist found for dataflow " \o TemplateString(dataflowId)
        \o ". Available codelists: "
        \o Join([i \in 1..Len(codelists) |-> codelists[i].id], ", ")

\* getIndicators: the entries returned for the code list found.
IndicatorList(cl) ==
    Slice([k \in 1..Len(CodesOf(cl)) |-> IndicatorEntry(CodesOf(cl)[k])], INDICATORS_LIMIT)

\* getIndicators, up to its await of fetch.
getIndicators(dataflowId) ==
    Await("getIndicators",
          UNICEF_API_BASE \o "/dataflow/UNICEF/" \o TemplateString(dataflowId)
              \o "/latest/?format=sdmx-json&detail=full&references=all",
          Locals(dataflowId, JSUndefined, JSUndefined))

\* getIndicators, from the parsed document to its return.
IndicatorsBody(locals, data) ==
    IF data.t = "null" THEN Throw(TypeErrorReading("null", "data"))
    ELSE LET codelists == Codelists(data)
             found == FindIndicatorCodelist(codelists)
         IN  IF found = 0
             THEN Return(TextPayload(NoCodelistMessage(locals.dataflowId, codelists)))
             ELSE Return(TextPayload(JSONStringify(IndicatorList(codelists[found]))))

\* getIndicators: its catch clause.
getIndicatorsCatch(completion) ==
    IF completion.type = "throw"
    THEN Throw("Failed to fetch indicators: " \o completion.message)
    ELSE completion

\* A mutation of Matches: the comparison keeps the case of both sides.
MatchesCaseSensitive(code, keyword) ==
    \/ Includes(NameOr(code, "").s, keyword)
    \/ Includes((IF Truthy(code.id) THEN code.id.s ELSE ""), keyword)

\* searchIndicators: the filter predicate, for a keyword that is a string.
Matches(code, keyword) ==
    LET keywordLower == ToLowerCase(keyword)
        name == ToLowerCase(NameOr(code, "").s)
        id == ToLowerCase(IF Truthy(code.id) THEN code.id.s ELSE "")
    IN  Includes(name, keywordLower) \/ Includes(id, keywordLower)

\* searchIndicators: the entries returned for the code list found.
MatchingIndicators(cl, keyword) ==
    LET matching == SelectSeq(CodesOf(cl), LAMBDA code : Matches(code, keyword))
    IN  Slice([k \in 1..Len(matching) |-> IndicatorEntry(matching[k])], SEARCH_LIMIT)

\* searchIndicators, up to its await of fetch.
searchIndicators(keyword) ==
    Await("searchIndicators",
          UNICEF_API_BASE
              \o "/dataflow/UNICEF/GLOBAL_DATAFLOW/latest/?format=sdmx-json&detail=full&references=all",
          Locals(JSUndefined, JSUndefined, keyword))

\* searchIndicators, from the parsed document to its return.
SearchBody(locals, data) ==
    IF data.t = "null" THEN Throw(TypeErrorReading("null", "data"))
    ELSE LET codelists == Codelists(data)
             found == FindIndicatorCodelist(codelists)
         IN  IF found = 0
             THEN Return(TextPayload("Could not find indicator codelist"))
             ELSE IF locals.keyword.t = "undefined"
             THEN Throw(TypeErrorReading("undefined", "toLowerCase"))
             ELSE Return(TextPayload(JSONStringify(
                     MatchingIndicators(codelists[found], locals.keyword.s))))

\* searchIndicators: its catch clause.
searchIndicatorsCatch(completion) ==
    IF completion.type = "throw"
    THEN Throw("Failed to search indicators: " \o completion.message)
    ELSE completion

\* df => ({ id: df.id, name: df.names?.en || df.name || "Unknown", agency: df.agencyID })
DataflowEntry(df) ==
    << <<"id", df.id>>, <<"name", NameOr(df, "Unknown")>>, <<"agency", df.agencyID>> >>

\* listDataflows, up to its await of fetch.
listDataflows ==
    Await("listDataflows",
          UNICEF_API_BASE \o "/dataflow/all/all/latest/?format=sdmx-json&detail=allstubs",
          Locals(JSUndefined, JSUndefined, JSUndefined))

\* listDataflows, from the parsed document to its return.
DataflowsBody(locals, data) ==
    IF data.t = "null" THEN Throw(TypeErrorReading("null", "data"))
    ELSE LET dataflows == Dataflows(data)
         IN  Return(TextPayload(JSONStringify(
                 [k \in 1..Len(dataflows) |-> DataflowEntry(dataflows[k])])))

\* listDataflows: its catch clause.
listDataflowsCatch(completion) ==
    IF completion.type = "throw"
    THEN Throw("Failed to fetch dataflows: " \o completion.message)
    ELSE completion

(***************************************************************************)
(* Query Adapter: the handler of "invoke operation" requests               *)
(***************************************************************************)
ToolNames ==
    {"list_dataflows", "get_indicators", "get_child_poverty_data",
     "get_child_mortality_data", "get_nutrition_data", "get_indicator_for_country",
     "search_indicators"}

\* A mutation of UnknownTool: the message does not name the tool.
UnknownToolUnnamed(name) == Throw("Unknown tool")

\* The default case of the switch.
UnknownTool(name) == Throw("Unknown tool: " \o name)

\* Reading a property of the arguments throws when there are none.
ReadingArgs(args, firstProp, completion) ==
    IF args.t = "undefined"
    THEN Throw(TypeErrorReading("undefined", firstProp))
    ELSE completion

\* A mutation of Dispatch: the three fixed-dataflow tools hand the caller's
\* dataflow_id and indicator_id on, as get_indicator_for_country does.
DispatchPassingArguments(name, args) ==
    CASE name = "list_dataflows" -> listDataflows
      [] name = "get_indicators" ->
            ReadingArgs(args, "dataflow_id", getIndicators(args.dataflow_id))
      [] name \in {"get_child_poverty_data", "get_child_mortality_data",
                   "get_nutrition_data"} ->
            ReadingArgs(args, "country_code",
                getData((IF Truthy(args.dataflow_id) THEN args.dataflow_id
                         ELSE IF name = "get_child_poverty_data" THEN JSString("CHLD_PVTY")
                         ELSE IF name = "get_child_mortality_data" THEN JSString("CME")
                         ELSE JSString("NUTRITION")),
                        args.country_code, args.indicator_id,
                        args.start_year, args.end_year))
      [] name = "get_indicator_for_country" ->
            ReadingArgs(args, "dataflow_id",
                getData(args.dataflow_id, args.country_code, args.indicator_id,
                        args.start_year, args.end_year))
      [] name = "search_indicators" ->
            ReadingArgs(args, "keyword", searchIndicators(args.keyword))
      [] OTHER -> UnknownTool(name)

\* The switch of the handler, up to the first await of the function it calls.
Dispatch(name, args) ==
    CASE name = "list_dataflows" -> listDataflows
      [] name = "get_indicators" ->
            ReadingArgs(args, "dataflow_id", getIndicators(args.dataflow_id))
      [] name = "get_child_poverty_data" ->
            ReadingArgs(args, "country_code",
                getData(JSString("CHLD_PVTY"), args.country_code, JSNull,
                        args.start_year, args.end_year))
      [] name = "get_child_mortality_data" ->
            ReadingArgs(args, "country_code",
                getData(JSString("CME"), args.country_code, JSNull,
                        args.start_year, args.end_year))
      [] name = "get_nutrition_data" ->
            ReadingArgs(args, "country_code",
                getData(JSString("NUTRITION"), args.country_code, JSNull,
                        args.start_year, args.end_year))
      [] name = "get_indicator_for_country" ->
            ReadingArgs(args, "dataflow_id",
                getData(args.dataflow_id, args.country_code, args.indicator_id,
                        args.start_year, args.end_year))
      [] name = "search_indicators" ->
            ReadingArgs(args, "keyword", searchIndicators(args.keyword))
      [] OTHER -> UnknownTool(name)

\* A mutation of HandlerCatch: the error is thrown on.
HandlerRethrow(completion) == completion

\* The catch clause of the handler.
HandlerCatch(completion) ==
    IF completion.type = "throw"
    THEN Return(TextPayload("Error: " \o completion.message))
    ELSE completion

\* The catch clause of the function that is suspended.
FunctionCatch(fn, completion) ==
    CASE fn = "getData" -> getDataCatch(completion)
      [] fn = "getIndicators" -> getIndicatorsCatch(completion)
      [] fn = "searchIndicators" -> searchIndicatorsCatch(completion)
      [] fn = "listDataflows" -> listDataflowsCatch(completion)

(***************************************************************************)
(* The requests and the remote outcomes the model draws from               *)
(***************************************************************************)
Beyond == 2

UnknownNames == {"get_poverty", "LIST_DATAFLOWS"}

Arguments(cc, df, ind, sy, ey, kw) ==
    [t |-> "object", country_code |-> cc, dataflow_id |-> df, indicator_id |-> ind,
     start_year |-> sy, end_year |-> ey, keyword |-> kw]

CountryCodes == {JSUndefined, JSString(""), JSString("USA"), JSString("BRA")}
DataflowIds == {JSUndefined, JSString(""), JSString("CME")}
IndicatorIds == {JSUndefined, JSString(""), JSString("CME_MRY0")}
StartYears == {JSUndefined, JSNumber(0), JSNumber(2000), JSNumber(-1)}
EndYears == {JSUndefined, JSNumber(0), JSNumber(2010)}
Keywords == {JSUndefined, JSString(""), JSString("pov"), JSString("ind_1")}

ArgumentMappings ==
    {JSUndefined}
    \cup {Arguments(cc, df, ind, sy, ey, JSUndefined) :
            cc \in CountryCodes, df \in DataflowIds, ind \in IndicatorIds,
            sy \in StartYears, ey \in EndYears}
    \cup {Arguments(JSUndefined, df, JSUndefined, JSUndefined, JSUndefined, kw) :
            df \in DataflowIds, kw \in Keywords}

Bodies ==
    {"", " ", "\n", " \t\r\n ", " x ", "{}",
     "REF_AREA,INDICATOR,TIME_PERIOD,OBS_VALUE\nBRA,CME_MRY0,2010,18.7\n"}

Array(items) == [t |-> "array", items |-> items]
Names(en) == [t |-> "object", en |-> en]
Code(id, names, name) == [id |-> JSString(id), names |-> names, name |-> name]
Codelist(id, codes) == [id |-> id, codes |-> codes]
Dataflow(id, names, name, agencyID) ==
    [id |-> JSString(id), names |-> names, name |-> name, agencyID |-> JSString(agencyID)]
Document(codelists, dataflows) ==
    [t |-> "object",
     data |-> [t |-> "object", codelists |-> codelists, dataflows |-> dataflows]]

SomeCodes ==
    << Code("CME_MRY0", Names(JSString("Under-five mortality rate")), JSUndefined),
       Code("PV_CHLD", JSUndefined, JSString("Child Poverty \"MDP\"")),
       Code("NT_BW_LBW", JSUndefined, JSUndefined),
       Code("Pov_IND_1", Names(JSUndefined), JSString("")),
       Code("WS_PPL", Names(JSString("")), JSString("People in POVERTY")) >>

\* n codes, two in three of them labelled.
ManyCodes(n) ==
    [k \in 1..n |->
        Code("IND_" \o NatToString(k),
             JSUndefined,
             IF k % 3 = 0 THEN JSUndefined ELSE JSString("Child Poverty " \o NatToString(k)))]

ListSizes ==
    {n \in 0..(3 * SEARCH_LIMIT) :
        \/ n \in (SEARCH_LIMIT - 1)..(SEARCH_LIMIT + Beyond)
        \/ n \in (INDICATORS_LIMIT - 1)..(INDICATORS_LIMIT + Beyond)
        \/ n = (3 * SEARCH_LIMIT) \div 2 + Beyond}

CodelistArrays ==
    { <<>>,
      << Codelist(JSString("CL_AGE"), Array(SomeCodes)),
         Codelist(JSUndefined, JSUndefined),
         Codelist(JSString("CL_indicator"), Array(SomeCodes)) >>,
      << Codelist(JSString("CL_UNIT"), JSUndefined),
         Codelist(JSString("CL_UNICEF_INDICATOR"), Array(SomeCodes)),
         Codelist(JSString("CL_IND"), Array(<<>>)) >>,
      << Codelist(JSString("CL_KIND"), JSUndefined),
         Codelist(JSString("CL_INDICATOR"), Array(SomeCodes)) >>,
      << Codelist(JSString("CL_IND"), Array(<<>>)) >> }
    \cup { << Codelist(JSString("CL_SEX"), Array(SomeCodes)),
              Codelist(JSString("CL_INDICATOR"), Array(ManyCodes(n))) >> : n \in ListSizes }

DataflowArrays ==
    { <<>>,
      << Dataflow("CME", Names(JSString("Child Mortality Estimates")), JSUndefined, "UNICEF"),
         Dataflow("NUTRITION", JSUndefined, JSString("Nutrition"), "UNICEF"),
         Dataflow("X", JSUndefined, JSUndefined, "WB") >> }

Documents ==
    {JSNull, [t |-> "object", data |-> JSUndefined], Document(JSUndefined, JSUndefined)}
    \cup {Document(Array(cls), JSUndefined) : cls \in CodelistArrays}
    \cup {Document(JSUndefined, Array(dfs)) : dfs \in DataflowArrays}

(***************************************************************************)
(* Chart Renderer                                                          *)
(* A chart's data is its labels and its datasets; of a dataset the model   *)
(* keeps the label and the data, not the colours and line options.         *)
(***************************************************************************)
ChartIds == {"mortalityChart", "nutritionChart", "povertyChart"}

Dataset(label, data) == [label |-> label, data |-> data]
ChartData(labels, datasets) == [t |-> "object", labels |-> labels, datasets |-> datasets]
Point(x, y) == [x |-> x, y |-> y]

\* placeholderData of initMortalityChart, initNutritionChart and initPovertyChart.
PlaceholderData(id) ==
    CASE id = "mortalityChart" ->
            ChartData(Array(<<"1990", "1995", "2000", "2005", "2010", "2015", "2020">>),
                Array(<< Dataset("Under-5 Mortality Rate", <<93, 87, 77, 63, 52, 43, 37>>),
                         Dataset("Infant Mortality Rate", <<64, 60, 54, 46, 39, 32, 28>>),
                         Dataset("Neonatal Mortality Rate", <<36, 34, 31, 27, 23, 19, 17>>) >>))
      [] id = "nutritionChart" ->
            ChartData(Array(<<"Sub-Saharan Africa", "South Asia", "East Asia",
                              "Latin America", "Middle East", "Europe">>),
                Array(<< Dataset("Stunting (%)", <<33, 31, 8, 11, 15, 5>>),
                         Dataset("Wasting (%)", <<6, 14, 2, 1, 7, 1>>),
                         Dataset("Underweight (%)", <<18, 27, 4, 4, 9, 2>>) >>))
      [] id = "povertyChart" ->
            ChartData(JSUndefined,
                Array(<< Dataset("GDP per Capita vs Under-5 Mortality",
                            << Point(500, 120), Point(1000, 90), Point(2000, 60),
                               Point(5000, 35), Point(10000, 20), Point(20000, 10),
                               Point(40000, 5), Point(60000, 4) >>) >>))

ChartType(id) ==
    CASE id = "mortalityChart" -> "line"
      [] id = "nutritionChart" -> "bar"
      [] id = "povertyChart" -> "scatter"

\* new Chart(ctx, {type, data, options}); updates counts the calls of update().
NewChart(id) ==
    [t |-> "chart", type |-> ChartType(id), data |-> PlaceholderData(id), updates |-> 0]

\* A mutation of InitChart: the chart is created whether its canvas is there
\* or not.
InitChartUnguarded(id, dom) == NewChart(id)

\* initMortalityChart, initNutritionChart, initPovertyChart: the chart variable
\* afterwards, given the element ids the page holds.
InitChart(id, dom) == IF id \in dom THEN NewChart(id) ELSE JSUndefined

\* chart.data.labels = data.labels; chart.data.datasets = data.datasets; chart.update()
SetLabelsAndDatasets(chart, data) ==
    [chart EXCEPT !.data.labels = data.labels,
                  !.data.datasets = data.datasets,
                  !.updates = @ + 1]

\* chart.data.datasets = data.datasets; chart.update()
SetDatasets(chart, data) ==
    [chart EXCEPT !.data.datasets = data.datasets, !.updates = @ + 1]

\* updateMortalityChart
updateMortalityChart(chart, data) ==
    IF chart.t # "undefined" /\ data.t = "object" THEN SetLabelsAndDatasets(chart, data) ELSE chart

\* updateNutritionChart
updateNutritionChart(chart, data) ==
    IF chart.t # "undefined" /\ data.t = "object" THEN SetLabelsAndDatasets(chart, data) ELSE chart

\* updatePovertyChart
updatePovertyChart(chart, data) ==
    IF chart.t # "undefined" /\ data.t = "object" THEN SetDatasets(chart, data) ELSE chart

\* A mutation of updateChartsWithData: every chart is updated from data.mortality.
updateChartsFromMortality(charts, data) ==
    IF data.mortality.t = "object"
    THEN [charts EXCEPT
            !["mortalityChart"] = updateMortalityChart(@, data.mortality),
            !["nutritionChart"] = updateNutritionChart(@, data.mortality),
            !["povertyChart"] = updatePovertyChart(@, data.mortality)]
    ELSE charts

\* updateChartsWithData, for a document that is an object: the three chart
\* variables afterwards.
updateChartsWithData(charts, data) ==
    [charts EXCEPT
        !["mortalityChart"] =
            IF data.mortality.t = "object" THEN updateMortalityChart(@, data.mortality) ELSE @,
        !["nutritionChart"] =
            IF data.nutrition.t = "object" THEN updateNutritionChart(@, data.nutrition) ELSE @,
        !["povertyChart"] =
            IF data.poverty.t = "object" THEN updatePovertyChart(@, data.poverty) ELSE @]

UsingPlaceholder == "Using placeholder data. Run export script to generate real data."

\* The series a summary document may hold under a key.
LiveSeries ==
    { ChartData(Array(<<"2000", "2010", "2020">>),
                Array(<< Dataset("Under-5 Mortality Rate", <<76, 51, 37>>) >>)),
      ChartData(JSUndefined,
                Array(<< Dataset("Countries", << Point(700, 95), Point(45000, 4) >>) >>)) }

Summary(mortality, nutrition, poverty) ==
    [t |-> "object", mortality |-> mortality, nutrition |-> nutrition, poverty |-> poverty]

\* The documents response.json() may resolve with.
Summaries ==
    {JSNull}
    \cup {Summary(m, n, p) : m \in LiveSeries \cup {JSUndefined},
                              n \in LiveSeries \cup {JSUndefined},
                              p \in LiveSeries \cup {JSUndefined}}

\* What became of data/summary.json, and the document it parsed to.
Fetched(status, data) == [status |-> status, data |-> data]

VARIABLES
    pagePc,     \* "loading", "fetching", "parsing" or "loaded"
    dom,        \* the ids of the canvas elements of the page
    charts,     \* mortalityChart, nutritionChart, povertyChart
    console,    \* the messages written by console.log
    summary     \* what became of data/summary.json, and its document

pageVars == <<pagePc, dom, charts, console, summary>>

InitPage ==
    /\ pagePc = "loading"
    /\ dom = {}
    /\ charts = [id \in ChartIds |-> JSUndefined]
    /\ console = <<>>
    /\ summary = Fetched("none", JSUndefined)

(***************************************************************************)
(* Query Adapter: state and steps of one invocation                        *)
(***************************************************************************)
VARIABLES
    pc,         \* "idle", "awaiting" (suspended at an await) or "done"
    request,    \* the params of the request being handled: name and arguments
    frame,      \* the suspended function: its name, the URL fetched, its locals
    fetched,    \* the URLs fetch was called with during this invocation
    response,   \* what the remote service answered to the fetch
    outcome     \* how the handler settled: a payload returned or an error thrown

NoRequest == [name |-> "", arguments |-> JSUndefined]
NoFrame == [type |-> "none"]
NoOutcome == [type |-> "none"]
NoResponse == [kind |-> "none"]

adapterVars == <<pc, request, frame, fetched, response, outcome>>

VARIABLES
    calls,      \* the invocations in hand when the transport delivers several
    listed      \* the answer to the latest "list operations" request

serverVars == <<calls, listed>>

InitAdapter ==
    /\ pc = "idle"
    /\ request = NoRequest
    /\ frame = NoFrame
    /\ fetched = <<>>
    /\ response = NoResponse
    /\ outcome = NoOutcome

\* The handler is called and runs to its first await, or to its end.
CallTool(name, args) ==
    /\ pc = "idle"
    /\ request' = [name |-> name, arguments |-> args]
    /\ response' = NoResponse
    /\ LET c == Dispatch(name, args)
       IN  IF c.type = "await"
           THEN /\ pc' = "awaiting"
                /\ frame' = c
                /\ fetched' = Append(fetched, c.url)
                /\ outcome' = NoOutcome
           ELSE /\ pc' = "done"
                /\ frame' = NoFrame
                /\ fetched' = fetched
                /\ outcome' = HandlerCatch(c)
    /\ UNCHANGED pageVars
    /\ UNCHANGED serverVars

\* The remote service answered `answer`: the suspended function settles with
\* `completion` and the handler with it.
Settle(answer, completion) ==
    /\ pc' = "done"
    /\ response' = answer
    /\ outcome' = HandlerCatch(FunctionCatch(frame.fn, completion))
    /\ frame' = NoFrame
    /\ UNCHANGED <<request, fetched>>
    /\ UNCHANGED pageVars
    /\ UNCHANGED serverVars

\* fetch rejects: the remote service cannot be reached.
FetchRejects ==
    /\ pc = "awaiting"
    /\ Settle([kind |-> "rejected"], Throw(FetchFailed))

\* response.text() resolves with the body.
TextResolves(csvText) ==
    /\ pc = "awaiting"
    /\ frame.fn = "getData"
    /\ Settle([kind |-> "text", body |-> csvText], DataBody(frame.locals, csvText))

\* response.json() rejects: the body does not parse.
JsonRejects ==
    /\ pc = "awaiting"
    /\ frame.fn \in {"getIndicators", "searchIndicators", "listDataflows"}
    /\ Settle([kind |-> "unparseable"], Throw(JsonSyntaxError))

\* response.json() resolves with the document.
JsonResolves(data) ==
    /\ pc = "awaiting"
    /\ frame.fn \in {"getIndicators", "searchIndicators", "listDataflows"}
    /\ Settle([kind |-> "json", data |-> data],
              CASE frame.fn = "getIndicators" -> IndicatorsBody(frame.locals, data)
                [] frame.fn = "searchIndicators" -> SearchBody(frame.locals, data)
                [] frame.fn = "listDataflows" -> DataflowsBody(frame.locals, data))

\* The transport sends the response; the adapter waits for the next request.
Respond ==
    /\ pc = "done"
    /\ pc' = "idle"
    /\ request' = NoRequest
    /\ frame' = NoFrame
    /\ fetched' = <<>>
    /\ response' = NoResponse
    /\ outcome' = NoOutcome
    /\ UNCHANGED pageVars
    /\ UNCHANGED serverVars

(***************************************************************************)
(* Query Adapter: several invocations in hand.  The transport calls the    *)
(* handler for each request it reads; a handler suspended at an await      *)
(* leaves the event loop to the others.                                    *)
(***************************************************************************)
MaxInFlight == 2

Slots == 1..MaxInFlight

\* A tool of the list returned to "list operations": its name, the properties
\* of its inputSchema and those required.
Tool(name, properties, required) ==
    [name |-> name, properties |-> properties, required |-> required]

\* The tools array of the ListToolsRequestSchema handler.
ToolDescriptors ==
    << Tool("list_dataflows", <<>>, <<>>),
       Tool("get_indicators", <<"dataflow_id">>, <<"dataflow_id">>),
       Tool("get_child_poverty_data",
            <<"country_code", "start_year", "end_year">>, <<"country_code">>),
       Tool("get_child_mortality_data",
            <<"country_code", "start_year", "end_year">>, <<"country_code">>),
       Tool("get_nutrition_data",
            <<"country_code", "start_year", "end_year">>, <<"country_code">>),
       Tool("get_indicator_for_country",
            <<"dataflow_id", "country_code", "indicator_id", "start_year", "end_year">>,
            <<"dataflow_id", "country_code">>),
       Tool("search_indicators", <<"keyword">>, <<"keyword">>) >>

NotListed == <<>>

\* The requests, bodies and documents the interleaved invocations draw from.
InterleavedRequests ==
    { [name |-> "get_child_mortality_data",
       arguments |-> Arguments(JSString("USA"), JSUndefined, JSUndefined,
                               JSNumber(2000), JSUndefined, JSUndefined)],
      [name |-> "get_child_mortality_data",
       arguments |-> Arguments(JSString("BRA"), JSUndefined, JSUndefined,
                               JSUndefined, JSUndefined, JSUndefined)],
      [name |-> "get_indicator_for_country",
       arguments |-> Arguments(JSString("USA"), JSString("NUTRITION"), JSString("NT_BW_LBW"),
                               JSUndefined, JSUndefined, JSUndefined)],
      [name |-> "get_indicators",
       arguments |-> Arguments(JSUndefined, JSString("CME"), JSUndefined,
                               JSUndefined, JSUndefined, JSUndefined)],
      [name |-> "get_indicators", arguments |-> JSUndefined],
      [name |-> "search_indicators",
       arguments |-> Arguments(JSUndefined, JSUndefined, JSUndefined,
                               JSUndefined, JSUndefined, JSString("pov"))],
      [name |-> "list_dataflows", arguments |-> JSUndefined],
      [name |-> "get_poverty", arguments |-> JSUndefined] }

InterleavedBodies == {"", "REF_AREA,INDICATOR,TIME_PERIOD,OBS_VALUE\nBRA,CME_MRY0,2010,18.7\n"}

InterleavedDocuments ==
    { Document(Array(<< Codelist(JSString("CL_AGE"), Array(SomeCodes)) >>),
               Array(<< Dataflow("CME", JSUndefined, JSString("Child Mortality"), "UNICEF") >>)),
      Document(Array(<< Codelist(JSString("CL_INDICATOR"), Array(SomeCodes)) >>),
               JSUndefined) }

IdleCall ==
    [pc |-> "idle", request |-> NoRequest, frame |-> NoFrame, fetched |-> <<>>,
     response |-> NoResponse, outcome |-> NoOutcome]

InitServer ==
    /\ calls = [i \in Slots |-> IdleCall]
    /\ listed = NotListed

\* A mutation of OwnLocals: the parameters are kept in one place on the server
\* object, where the suspended invocation in the highest slot left them.
SharedLocals(cs, i) ==
    LET last == CHOOSE j \in Slots :
                    /\ cs[j].pc = "awaiting"
                    /\ \A k \in Slots : cs[k].pc = "awaiting" => k <= j
    IN  cs[last].frame.locals

\* The parameters the function suspended in invocation i reads after its
\* await: those of its own call.
OwnLocals(cs, i) == cs[i].frame.locals

\* The handler is called for a request while others may be suspended.
Receive(i, name, args) ==
    /\ calls[i].pc = "idle"
    /\ LET c == Dispatch(name, args)
       IN  calls' = [calls EXCEPT ![i] =
                IF c.type = "await"
                THEN [pc |-> "awaiting", request |-> [name |-> name, arguments |-> args],
                      frame |-> c, fetched |-> <<c.url>>,
                      response |-> NoResponse, outcome |-> NoOutcome]
                ELSE [pc |-> "done", request |-> [name |-> name, arguments |-> args],
                      frame |-> NoFrame, fetched |-> <<>>,
                      response |-> NoResponse, outcome |-> HandlerCatch(c)]]
    /\ UNCHANGED listed
    /\ UNCHANGED <<adapterVars, pageVars>>

\* The function suspended in invocation i settles, and its handler with it.
SettleCall(i, answer, completion) ==
    /\ calls' = [calls EXCEPT ![i] =
            [@ EXCEPT !.pc = "done",
                      !.response = answer,
                      !.outcome = HandlerCatch(FunctionCatch(calls[i].frame.fn, completion)),
                      !.frame = NoFrame]]
    /\ UNCHANGED listed
    /\ UNCHANGED <<adapterVars, pageVars>>

\* The fetch of invocation i rejects.
CallFetchRejects(i) ==
    /\ calls[i].pc = "awaiting"
    /\ SettleCall(i, [kind |-> "rejected"], Throw(FetchFailed))

\* response.text() of invocation i resolves with the body.
CallTextResolves(i, csvText) ==
    /\ calls[i].pc = "awaiting"
    /\ calls[i].frame.fn = "getData"
    /\ SettleCall(i, [kind |-> "text", body |-> csvText],
                  DataBody(OwnLocals(calls, i), csvText))

\* response.json() of invocation i rejects.
CallJsonRejects(i) ==
    /\ calls[i].pc = "awaiting"
    /\ calls[i].frame.fn \in {"getIndicators", "searchIndicators", "listDataflows"}
    /\ SettleCall(i, [kind |-> "unparseable"], Throw(JsonSyntaxError))

\* response.json() of invocation i resolves with the document.
CallJsonResolves(i, data) ==
    /\ calls[i].pc = "awaiting"
    /\ calls[i].frame.fn \in {"getIndicators", "searchIndicators", "listDataflows"}
    /\ SettleCall(i, [kind |-> "json", data |-> data],
            CASE calls[i].frame.fn = "getIndicators" ->
                    IndicatorsBody(OwnLocals(calls, i), data)
              [] calls[i].frame.fn = "searchIndicators" ->
                    SearchBody(OwnLocals(calls, i), data)
              [] calls[i].frame.fn = "listDataflows" ->
                    DataflowsBody(OwnLocals(calls, i), data))

\* The transport sends the response of invocation i.
CallResponds(i) ==
    /\ calls[i].pc = "done"
    /\ calls' = [calls EXCEPT ![i] = IdleCall]
    /\ UNCHANGED listed
    /\ UNCHANGED <<adapterVars, pageVars>>

\* The ListToolsRequestSchema handler: it returns the tools array.
ListTools ==
    /\ listed' = ToolDescriptors
    /\ UNCHANGED calls
    /\ UNCHANGED <<adapterVars, pageVars>>

(***************************************************************************)
(* Chart Renderer: the steps of a page load                                *)
(***************************************************************************)
\* The DOMContentLoaded listener: the three init functions, then
\* loadDataFromJSON up to its await of fetch('data/summary.json').
DOMContentLoaded(present) ==
    /\ pagePc = "loading"
    /\ dom' = present
    /\ charts' = [id \in ChartIds |-> InitChart(id, present)]
    /\ pagePc' = "fetching"
    /\ UNCHANGED <<console, summary>>
    /\ UNCHANGED adapterVars
    /\ UNCHANGED serverVars

\* fetch rejects; the catch clause logs.
SummaryFetchRejects ==
    /\ pagePc = "fetching"
    /\ pagePc' = "loaded"
    /\ summary' = Fetched("fetch failed", JSUndefined)
    /\ console' = Append(console, UsingPlaceholder)
    /\ UNCHANGED <<dom, charts>>
    /\ UNCHANGED adapterVars
    /\ UNCHANGED serverVars

\* fetch resolves; with response.ok the function awaits response.json().
SummaryResponds(ok) ==
    /\ pagePc = "fetching"
    /\ pagePc' = IF ok THEN "parsing" ELSE "loaded"
    /\ summary' = Fetched(IF ok THEN "ok" ELSE "not ok", JSUndefined)
    /\ UNCHANGED <<dom, charts, console>>
    /\ UNCHANGED adapterVars
    /\ UNCHANGED serverVars

\* response.json() rejects; the catch clause logs.
SummaryJsonRejects ==
    /\ pagePc = "parsing"
    /\ pagePc' = "loaded"
    /\ summary' = Fetched("parse failed", JSUndefined)
    /\ console' = Append(console, UsingPlaceholder)
    /\ UNCHANGED <<dom, charts>>
    /\ UNCHANGED adapterVars
    /\ UNCHANGED serverVars

\* response.json() resolves with data; updateChartsWithData(data).  Reading a
\* property of null throws, and the catch clause logs.
SummaryJsonResolves(data) ==
    /\ pagePc = "parsing"
    /\ pagePc' = "loaded"
    /\ summary' = Fetched("parsed", data)
    /\ IF data.t = "null"
       THEN /\ console' = Append(console, UsingPlaceholder)
            /\ charts' = charts
       ELSE /\ console' = console
            /\ charts' = updateChartsWithData(charts, data)
    /\ UNCHANGED dom
    /\ UNCHANGED adapterVars
    /\ UNCHANGED serverVars

vars ==
    <<pc, request, frame, fetched, response, outcome, pagePc, dom, charts, console, summary,
      calls, listed>>

Init == InitAdapter /\ InitPage /\ InitServer

Next ==
    \/ \E name \in ToolNames \cup UnknownNames, args \in ArgumentMappings :
            CallTool(name, args)
    \/ FetchRejects
    \/ \E csvText \in Bodies : TextResolves(csvText)
    \/ JsonRejects
    \/ \E data \in Documents : JsonResolves(data)
    \/ Respond

Spec == Init /\ [][Next]_vars

NextCharts ==
    \/ \E present \in SUBSET ChartIds : DOMContentLoaded(present)
    \/ SummaryFetchRejects
    \/ \E ok \in BOOLEAN : SummaryResponds(ok)
    \/ SummaryJsonRejects
    \/ \E data \in Summaries : SummaryJsonResolves(data)

SpecCharts == Init /\ [][NextCharts]_vars

NextInterleaved ==
    \/ \E i \in Slots, r \in InterleavedRequests : Receive(i, r.name, r.arguments)
    \/ \E i \in Slots : CallFetchRejects(i)
    \/ \E i \in Slots, csvText \in InterleavedBodies : CallTextResolves(i, csvText)
    \/ \E i \in Slots : CallJsonRejects(i)
    \/ \E i \in Slots, data \in InterleavedDocuments : CallJsonResolves(i, data)
    \/ \E i \in Slots : CallResponds(i)
    \/ ListTools

SpecInterleaved == Init /\ [][NextInterleaved]_vars

(***************************************************************************)
(* Properties of the Query Adapter                                         *)
(***************************************************************************)
StartsWith(s, prefix) == Len(s) >= Len(prefix) /\ SubSeq(s, 1, Len(prefix)) = prefix

DataTools ==
    {"get_child_poverty_data", "get_child_mortality_data", "get_nutrition_data",
     "get_indicator_for_country"}

Handling == pc \in {"awaiting", "done"}
Returned == pc = "done" /\ outcome.type = "return"
ResultText == outcome.payload.content[1].text
HasArguments == request.arguments.t = "object"

\* C1: an operation name outside the registry is answered, whatever the
\* arguments, by a failure payload whose text contains the name; nothing is
\* fetched and no error leaves the handler.
UnknownNameReported ==
    (Handling /\ request.name \notin ToolNames) =>
        /\ Returned
        /\ StartsWith(ResultText, "Error: ")
        /\ Includes(ResultText, request.name)
        /\ fetched = <<>>

UnknownNameWitness ==
    /\ Returned
    /\ request.name = "get_poverty"
    /\ HasArguments
    /\ request.arguments.country_code = JSString("USA")
    /\ ResultText = "Error: Unknown tool: get_poverty"
    /\ fetched = <<>>

\* The required parameters of a data-retrieval request that are missing or empty.
IsMissing(v) == v.t = "undefined" \/ v = JSString("")
MissingRequired ==
    \/ ~HasArguments
    \/ IsMissing(request.arguments.country_code)
    \/ request.name = "get_indicator_for_country" /\ IsMissing(request.arguments.dataflow_id)

\* C2: a data-retrieval invocation whose country_code or dataflow_id is missing
\* or empty sends no HTTP request and is answered by a caller-error payload.
MissingParameterNotFetched ==
    (Handling /\ request.name \in DataTools /\ MissingRequired) =>
        /\ fetched = <<>>
        /\ Returned
        /\ StartsWith(ResultText, "Error: ")

\* The invocation raised a failure: the arguments could not be read, the
\* service could not be reached, its body did not parse, or the document or
\* the keyword was not what the function reads.
SomeIndicatorCodelist(data) ==
    /\ data.t = "object"
    /\ data.data.t = "object"
    /\ data.data.codelists.t = "array"
    /\ \E i \in 1..Len(data.data.codelists.items) :
            /\ data.data.codelists.items[i].id.t = "string"
            /\ Includes(data.data.codelists.items[i].id.s, "IND")

FailureRaised ==
    \/ ~HasArguments /\ request.name # "list_dataflows"
    \/ response.kind \in {"rejected", "unparseable"}
    \/ response.kind = "json" /\ response.data.t = "null"
    \/ /\ response.kind = "json"
       /\ request.name = "search_indicators"
       /\ SomeIndicatorCodelist(response.data)
       /\ request.arguments.keyword.t = "undefined"

\* C3: every invocation of a registered operation ends with one result payload
\* of a single text item; a failure gives an error message in it, no error
\* leaves the handler and at most one request was sent.
EveryInvocationAnswered ==
    (pc = "done" /\ request.name \in ToolNames) =>
        /\ outcome.type = "return"
        /\ Len(outcome.payload.content) = 1
        /\ outcome.payload.content[1].type = "text"
        /\ Len(fetched) <= 1
        /\ FailureRaised =>
                (StartsWith(ResultText, "Error: ") /\ Len(ResultText) > Len("Error: "))

EveryInvocationWitness ==
    /\ Returned
    /\ request.name = "get_indicators"
    /\ response.kind = "rejected"
    /\ Len(fetched) = 1
    /\ ResultText = "Error: Failed to fetch indicators: fetch failed"

\* The dataflow a data-retrieval request names: fixed by the tool, or given.
RequestedDataflow ==
    CASE request.name = "get_child_poverty_data" -> JSString("CHLD_PVTY")
      [] request.name = "get_child_mortality_data" -> JSString("CME")
      [] request.name = "get_nutrition_data" -> JSString("NUTRITION")
      [] request.name = "get_indicator_for_country" -> request.arguments.dataflow_id

\* C4: get_indicator_for_country, given a country and a dataflow, requests
\* {base}/data/UNICEF,{dataflow},1.0/{key}?format=csv where the key is
\* <country>.<indicator> with an indicator_id and <country>. without one.
CompositeKeyInPath ==
    (/\ Handling
     /\ request.name = "get_indicator_for_country"
     /\ HasArguments
     /\ request.arguments.country_code.t = "string"
     /\ request.arguments.dataflow_id.t = "string") =>
        LET country == request.arguments.country_code.s
            indicator == request.arguments.indicator_id
            key == IF indicator.t = "string"
                   THEN country \o "." \o indicator.s
                   ELSE country \o "."
        IN  /\ Len(fetched) = 1
            /\ StartsWith(fetched[1],
                    "https://sdmx.data.unicef.org/ws/public/sdmxapi/rest/data/UNICEF,"
                        \o request.arguments.dataflow_id.s \o ",1.0/" \o key \o "?format=csv")

CompositeKeyWitness ==
    /\ pc = "awaiting"
    /\ request.name = "get_indicator_for_country"
    /\ HasArguments
    /\ request.arguments.indicator_id.t = "undefined"
    /\ request.arguments.start_year.t = "undefined"
    /\ request.arguments.end_year.t = "undefined"
    /\ fetched =
        << "https://sdmx.data.unicef.org/ws/public/sdmxapi/rest/data/UNICEF,CME,1.0/USA.?format=csv" >>

\* C5: the request URL of a data-retrieval invocation holds startPeriod=<start_year>
\* exactly when start_year was supplied and endPeriod=<end_year> exactly when
\* end_year was supplied, for every integer value of the two.
PeriodParameterExactlyWhenSupplied(url, param, year) ==
    IF year.t = "number"
    THEN Includes(url, param \o IntToString(year.n))
    ELSE ~Includes(url, param)

PeriodsExactlyWhenSupplied ==
    (Handling /\ request.name \in DataTools /\ HasArguments) =>
        /\ Len(fetched) = 1
        /\ PeriodParameterExactlyWhenSupplied(
                fetched[1], "startPeriod=", request.arguments.start_year)
        /\ PeriodParameterExactlyWhenSupplied(
                fetched[1], "endPeriod=", request.arguments.end_year)

\* Every character of the body is white space (so is the empty body).
IsBlank(body) == \A i \in 1..Len(body) : SubSeq(body, i, i) \in WhiteSpace

\* C6: a data-retrieval invocation whose response body is empty or white space
\* returns "No data found for <country> in <dataflow>" as a normal payload;
\* with any other body it returns the body unmodified.
EmptyBodyIsNoData ==
    (/\ pc = "done"
     /\ request.name \in DataTools
     /\ response.kind = "text") =>
        /\ outcome.type = "return"
        /\ IF IsBlank(response.body)
           THEN ResultText = "No data found for "
                                \o TemplateString(request.arguments.country_code)
                                \o " in " \o TemplateString(RequestedDataflow)
           ELSE ResultText = response.body

EmptyBodyWitness ==
    /\ Returned
    /\ request.name = "get_child_mortality_data"
    /\ response.kind = "text"
    /\ response.body = " \t\r\n "
    /\ ResultText = "No data found for BRA in CME"

\* The code lists of the document the service answered with.
AnsweredCodelists ==
    IF response.data.data.t = "object" /\ response.data.data.codelists.t = "array"
    THEN response.data.data.codelists.items
    ELSE <<>>

\* The metadata document was parsed and none of its code lists has an
\* identifier containing "INDICATOR" or "IND".
NoIndicatorCodelistAnswered ==
    /\ pc = "done"
    /\ HasArguments
    /\ response.kind = "json"
    /\ response.data.t = "object"
    /\ ~SomeIndicatorCodelist(response.data)

\* The text holds every code list identifier of the document.
ListsIdentifiers(text) ==
    \A i \in 1..Len(AnsweredCodelists) :
        AnsweredCodelists[i].id.t = "string" => Includes(text, AnsweredCodelists[i].id.s)

\* C7, as stated: get_indicators and search_indicators both list the
\* identifiers of the code lists present when none is an indicator code list.
BothListIdentifiers ==
    (/\ NoIndicatorCodelistAnswered
     /\ \/ request.name = "get_indicators" /\ request.arguments.dataflow_id.t = "string"
        \/ request.name = "search_indicators" /\ request.arguments.keyword.t = "string") =>
            Returned /\ ListsIdentifiers(ResultText)

\* The identifiers of code lists from..Len, separated by ", "; a code list
\* without an identifier contributes the empty string.
RECURSIVE IdentifiersFrom(_)
IdentifiersFrom(from) ==
    IF from > Len(AnsweredCodelists) THEN ""
    ELSE (IF AnsweredCodelists[from].id.t = "string" THEN AnsweredCodelists[from].id.s ELSE "")
            \o (IF from < Len(AnsweredCodelists) THEN ", " ELSE "")
            \o IdentifiersFrom(from + 1)

\* C7, amended: when no code list identifier contains "INDICATOR" or "IND",
\* get_indicators names the dataflow and lists the identifiers that were
\* present, and search_indicators answers "Could not find indicator codelist"
\* without listing them.
IdentifiersListedByGetIndicators ==
    NoIndicatorCodelistAnswered =>
        /\ request.name = "get_indicators" =>
                /\ Returned
                /\ ListsIdentifiers(ResultText)
                /\ ResultText = "No indicator codelist found for dataflow "
                                    \o TemplateString(request.arguments.dataflow_id)
                                    \o ". Available codelists: " \o IdentifiersFrom(1)
        /\ request.name = "search_indicators" =>
                /\ Returned
                /\ ResultText = "Could not find indicator codelist"

IdentifiersListedWitness ==
    /\ NoIndicatorCodelistAnswered
    /\ request.name = "get_indicators"
    /\ ResultText =
        "No indicator codelist found for dataflow CME. Available codelists: CL_AGE, , CL_indicator"

\* The code list the claims speak of: the first, in document order, whose
\* identifier contains "IND" (as every identifier containing "INDICATOR" does).
FirstIndicatorCodes ==
    LET cls == AnsweredCodelists
        first == CHOOSE i \in 1..Len(cls) :
                    /\ cls[i].id.t = "string" /\ Includes(cls[i].id.s, "IND")
                    /\ \A j \in 1..(i - 1) :
                            ~(cls[j].id.t = "string" /\ Includes(cls[j].id.s, "IND"))
    IN  IF cls[first].codes.t = "array" THEN cls[first].codes.items ELSE <<>>

\* The label of a code: names.en, else name, else none ("").
LabelOf(code) ==
    IF code.names.t = "object" /\ code.names.en.t = "string" /\ code.names.en.s # ""
    THEN code.names.en.s
    ELSE IF code.name.t = "string" THEN code.name.s ELSE ""

\* The {id, name} pair returned for a code; a code without a label is "Unknown".
PairOf(code) ==
    << <<"id", code.id>>,
       <<"name", JSString(IF LabelOf(code) = "" THEN "Unknown" ELSE LabelOf(code))>> >>

\* The two characters are the same letter, in either case.
SameLetter(a, b) ==
    \/ a = b
    \/ \E i \in 1..26 :
            /\ a \in {SubSeq(UpperCase, i, i), SubSeq(LowerCase, i, i)}
            /\ b \in {SubSeq(UpperCase, i, i), SubSeq(LowerCase, i, i)}

\* s contains sub, letters compared without regard to case.
ContainsIgnoringCase(s, sub) ==
    \E i \in 0..(Len(s) - Len(sub)) :
        \A j \in 1..Len(sub) : SameLetter(SubSeq(s, i + j, i + j), SubSeq(sub, j, j))

\* The places, in the code list, of the codes that match the keyword.
MatchingPlaces(codes, keyword) ==
    {i \in 1..Len(codes) :
        \/ ContainsIgnoringCase(codes[i].id.s, keyword)
        \/ ContainsIgnoringCase(LabelOf(codes[i]), keyword)}

\* The first `limit` places of the set, in increasing order.
FirstPlaces(places, limit) ==
    LET n == IF Cardinality(places) < limit THEN Cardinality(places) ELSE limit
    IN  [k \in 1..n |-> CHOOSE i \in places : Cardinality({j \in places : j < i}) = k - 1]

SearchAnswered ==
    /\ pc = "done"
    /\ request.name = "search_indicators"
    /\ HasArguments
    /\ request.arguments.keyword.t = "string"
    /\ response.kind = "json"
    /\ SomeIndicatorCodelist(response.data)

\* C8: search_indicators returns the entries whose identifier or label contains
\* the keyword without regard to case, the first 50 of them in code-list
\* order, and an empty list, as a normal payload, when none matches.
SearchReturnsFirstMatches ==
    SearchAnswered =>
        LET codes == FirstIndicatorCodes
            places == FirstPlaces(MatchingPlaces(codes, request.arguments.keyword.s), 50)
        IN  /\ Returned
            /\ Len(places) <= 50
            /\ ResultText = JSONStringify([k \in 1..Len(places) |-> PairOf(codes[places[k]])])
            /\ places = <<>> => ResultText = "[]"

SearchWitness ==
    /\ SearchAnswered
    /\ Returned
    /\ request.arguments.keyword = JSString("pov")
    /\ Cardinality(MatchingPlaces(FirstIndicatorCodes, "pov")) > 50
    /\ Cardinality(MatchingPlaces(FirstIndicatorCodes, "pov")) < Len(FirstIndicatorCodes)
    /\ ResultText # "[]"

\* C9: get_indicators returns the first 100 entries, in code-list order, of the
\* first code list whose identifier contains "INDICATOR" or "IND", each as an
\* {id, name} pair, and an empty list for a code list without entries.
IndicatorsAreFirstHundred ==
    (/\ pc = "done"
     /\ request.name = "get_indicators"
     /\ HasArguments
     /\ response.kind = "json"
     /\ SomeIndicatorCodelist(response.data)) =>
        LET codes == FirstIndicatorCodes
            n == IF Len(codes) < 100 THEN Len(codes) ELSE 100
        IN  /\ Returned
            /\ ResultText = JSONStringify([k \in 1..n |-> PairOf(codes[k])])
            /\ codes = <<>> => ResultText = "[]"

IndicatorsWitness ==
    /\ Returned
    /\ request.name = "get_indicators"
    /\ response.kind = "json"
    /\ SomeIndicatorCodelist(response.data)
    /\ Len(FirstIndicatorCodes) > 100
    /\ Len(AnsweredCodelists) > 1
    /\ ~Includes(ResultText, "\"IND_101\"")
    /\ Includes(ResultText, "\"IND_100\"")

\* The dataflow code each fixed-dataflow tool is documented to query.
FixedDataflow(name) ==
    CASE name = "get_child_poverty_data" -> "CHLD_PVTY"
      [] name = "get_child_mortality_data" -> "CME"
      [] name = "get_nutrition_data" -> "NUTRITION"

\* C13: get_child_poverty_data, get_child_mortality_data and get_nutrition_data
\* request the dataflows CHLD_PVTY, CME and NUTRITION whatever dataflow_id and
\* indicator_id the caller passes, and the key of the request is <country>.
\* with the trailing separator.
FixedDataflowAndTrailingSeparator ==
    (/\ Handling
     /\ request.name \in DataTools \ {"get_indicator_for_country"}
     /\ HasArguments) =>
        /\ Len(fetched) = 1
        /\ StartsWith(fetched[1],
                "https://sdmx.data.unicef.org/ws/public/sdmxapi/rest/data/UNICEF,"
                    \o FixedDataflow(request.name) \o ",1.0/"
                    \o (IF request.arguments.country_code.t = "string"
                        THEN request.arguments.country_code.s
                        ELSE "undefined")
                    \o ".?format=csv")

FixedDataflowWitness ==
    /\ pc = "awaiting"
    /\ request.name = "get_nutrition_data"
    /\ HasArguments
    /\ request.arguments.dataflow_id = JSString("CME")
    /\ request.arguments.indicator_id = JSString("CME_MRY0")
    /\ fetched =
        << "https://sdmx.data.unicef.org/ws/public/sdmxapi/rest/data/UNICEF,NUTRITION,1.0/BRA.?format=csv&startPeriod=2000&endPeriod=2010" >>

(***************************************************************************)
(* Properties of the Chart Renderer                                        *)
(***************************************************************************)
\* The top-level key of the summary document a chart is updated from.
KeyOf(id) ==
    CASE id = "mortalityChart" -> "mortality"
      [] id = "nutritionChart" -> "nutrition"
      [] id = "povertyChart" -> "poverty"

\* The fetch succeeded with a success status, the body parsed, and the
\* document holds a series under the chart's own key.
DocumentHoldsKeyOf(id) ==
    /\ summary.status = "parsed"
    /\ summary.data.t = "object"
    /\ summary.data[KeyOf(id)].t = "object"

\* C10: a chart keeps its placeholder series unless the summary document was
\* fetched with a success status, parsed, and holds the chart's own key; then
\* the chart's series are those of the document, whatever the other keys.
PlaceholderKeptUnlessOwnKey ==
    \A id \in ChartIds :
        charts[id].t = "chart" =>
            IF pagePc = "loaded" /\ DocumentHoldsKeyOf(id)
            THEN /\ charts[id].data.datasets = summary.data[KeyOf(id)].datasets
                 /\ charts[id].data.labels =
                        IF id = "povertyChart"
                        THEN PlaceholderData(id).labels
                        ELSE summary.data[KeyOf(id)].labels
                 /\ charts[id].updates = 1
            ELSE /\ charts[id].data = PlaceholderData(id)
                 /\ charts[id].updates = 0

PlaceholderKeptWitness ==
    /\ pagePc = "loaded"
    /\ dom = ChartIds
    /\ DocumentHoldsKeyOf("mortalityChart")
    /\ ~DocumentHoldsKeyOf("nutritionChart")
    /\ DocumentHoldsKeyOf("povertyChart")
    /\ summary.data.mortality # summary.data.poverty
    /\ charts["mortalityChart"].data.datasets # PlaceholderData("mortalityChart").datasets
    /\ charts["nutritionChart"].data = PlaceholderData("nutritionChart")
    /\ charts["povertyChart"].data.datasets = summary.data.poverty.datasets

\* C12: a chart whose canvas is absent from the page is never created, at
\* initialisation or later; a summary document holding its key neither updates
\* it nor raises an error, and the charts whose canvases are there are created
\* and updated from their own keys.
MissingAnchorSkipped ==
    pagePc # "loading" =>
        /\ \A id \in ChartIds \ dom : charts[id] = JSUndefined
        /\ \A id \in dom : charts[id].t = "chart"
        /\ (pagePc = "loaded" /\ summary.status = "parsed" /\ summary.data.t = "object") =>
                /\ console = <<>>
                /\ \A id \in dom :
                        IF summary.data[KeyOf(id)].t = "object"
                        THEN /\ charts[id].updates = 1
                             /\ charts[id].data.datasets = summary.data[KeyOf(id)].datasets
                        ELSE /\ charts[id].updates = 0
                             /\ charts[id].data = PlaceholderData(id)

MissingAnchorWitness ==
    /\ pagePc = "loaded"
    /\ dom = {"mortalityChart", "povertyChart"}
    /\ DocumentHoldsKeyOf("nutritionChart")
    /\ DocumentHoldsKeyOf("mortalityChart")
    /\ ~DocumentHoldsKeyOf("povertyChart")
    /\ charts["nutritionChart"] = JSUndefined
    /\ charts["mortalityChart"].updates = 1
    /\ charts["povertyChart"].data = PlaceholderData("povertyChart")
    /\ console = <<>>

(***************************************************************************)
(* Properties of interleaved invocations                                   *)
(***************************************************************************)
InHand(i) == calls[i].pc # "idle"

Finished(i) == calls[i].pc = "done"

Registered(i) == calls[i].request.name \in ToolNames

\* The invocation reaches a retrieval function: list_dataflows reads no
\* argument, the others read the properties of the arguments mapping.
ReachesFunction(i) ==
    /\ Registered(i)
    /\ \/ calls[i].request.name = "list_dataflows"
       \/ calls[i].request.arguments.t = "object"

\* Two finished invocations of the same request that met the same response
\* gave the same result, and any two invocations of the same request in hand
\* sent the same request, whatever else was in hand meanwhile.
ResultsDetermined ==
    \A i, j \in Slots :
        (InHand(i) /\ InHand(j) /\ calls[i].request = calls[j].request) =>
            /\ calls[i].fetched = calls[j].fetched
            /\ (Finished(i) /\ Finished(j) /\ calls[i].response = calls[j].response) =>
                    calls[i].outcome = calls[j].outcome

\* The list returned to "list operations" is, whenever it was asked, the seven
\* descriptors of the operations the handler dispatches.
RegistryUnchanged ==
    listed # NotListed =>
        /\ listed = ToolDescriptors
        /\ Len(listed) = 7
        /\ {listed[k].name : k \in 1..Len(listed)} = ToolNames

\* C11: with invocations interleaved, each invocation of a registered
\* operation issues at most one outbound request (exactly one when it reaches
\* its retrieval function, that is for list_dataflows or when an arguments
\* mapping is present; none when the arguments are absent), a suspended
\* invocation has issued its one request, each result is determined only by
\* the invocation's own name, arguments and the response to its own request,
\* and list-operations returns the same seven descriptors throughout.
InvocationsIndependent ==
    /\ \A i \in Slots :
            InHand(i) =>
                /\ Len(calls[i].fetched) = (IF ReachesFunction(i) THEN 1 ELSE 0)
                /\ calls[i].pc = "awaiting" => ReachesFunction(i)
    /\ ResultsDetermined
    /\ RegistryUnchanged

\* Two invocations for different countries were suspended together; the first
\* was answered with an empty body and reports its own country, the second
\* was answered with measurements, and the operations were listed meanwhile.
InvocationsIndependentWitness ==
    /\ Finished(1)
    /\ Finished(2)
    /\ calls[1].request.name = "get_child_mortality_data"
    /\ calls[1].request.arguments.country_code = JSString("USA")
    /\ calls[2].request.name = "get_child_mortality_data"
    /\ calls[2].request.arguments.country_code = JSString("BRA")
    /\ calls[1].response = [kind |-> "text", body |-> ""]
    /\ calls[2].response.kind = "text"
    /\ calls[2].response.body # ""
    /\ calls[1].outcome = Return(TextPayload("No data found for USA in CME"))
    /\ calls[2].outcome = Return(TextPayload(calls[2].response.body))
    /\ listed = ToolDescriptors

\* C11 as stated: every invocation of a registered operation issues exactly
\* one outbound request.
ExactlyOneRequestEach ==
    /\ \A i \in Slots : (InHand(i) /\ Registered(i)) => Len(calls[i].fetched) = 1
    /\ ResultsDetermined
    /\ RegistryUnchanged

====
